---- MODULE Spec2Model ----
(***************************************************************************)
(* Model of expo-sqlite's prepared-statement facade                        *)
(* (packages/expo-sqlite/src/next/SQLiteStatement.ts): the parameter       *)
(* normalizer, the row composer and the SQLiteStatement class over an      *)
(* opaque NativeStatement handle.                                          *)
(***************************************************************************)
EXTENDS Integers, Sequences, FiniteSets, TLC

VARIABLES
    nArgs,        \* normalizeParams: the rest-argument list of the call
    nOut,         \* normalizeParams: the returned { params, shouldPassAsObject }
    cNames,       \* composeRow / composeRows: columnNames
    cList,        \* composeRows: columnValuesList
    cOut,         \* composeRow / composeRows: what the call did
    columnNames,  \* native statement: its result column labels
    rows,         \* native statement: its result set (raw value rows)
    cursor,       \* native statement: number of rows already stepped over
    finalized,    \* native statement: handle released
    iters,        \* generator objects returned by eachSync / eachAsync
    task,         \* the one-shot async call in flight (runAsync, getAsync, ...)
    last,         \* the call that completed most recently, with its outcome
    nameFetches,  \* native getColumnNames calls issued so far by the facade
    callsMade     \* facade method calls made so far

vars == <<nArgs, nOut, cNames, cList, cOut, columnNames, rows, cursor,
          finalized, iters, task, last, nameFetches, callsMade>>

normVars == <<nArgs, nOut>>
compVars == <<cNames, cList, cOut>>
stmtVars == <<columnNames, rows, cursor, finalized, iters, task, last, nameFetches,
              callsMade>>

----------------------------------------------------------------------------
(* Bounds *)

MaxArgs == 2     \* arguments of one normalizeParams call
MaxElems == 1    \* elements of an array / entries of an object passed as params
MaxCols == 2     \* column names of a statement
MaxList == 2     \* rows handed to composeRows
MaxRows == 2     \* rows of a statement's result set
MaxCalls == 2     \* method calls made on one statement (next() of a generator not counted)

----------------------------------------------------------------------------
(* JavaScript values.  Every value is a record of one shape: t is the kind,  *)
(* n the payload of a scalar, a the elements of an array, o the entries of  *)
(* an object in insertion order.                                            *)

Str(i) == [t |-> "string", n |-> i, a |-> <<>>, o |-> <<>>]
Num(i) == [t |-> "number", n |-> i, a |-> <<>>, o |-> <<>>]
Bool(i) == [t |-> "boolean", n |-> i, a |-> <<>>, o |-> <<>>]
Null == [t |-> "null", n |-> 0, a |-> <<>>, o |-> <<>>]
Undefined == [t |-> "undefined", n |-> 0, a |-> <<>>, o |-> <<>>]
Arr(s) == [t |-> "array", n |-> 0, a |-> s, o |-> <<>>]
Obj(e) == [t |-> "object", n |-> 0, a |-> <<>>, o |-> e]

\* JavaScript's typeof: null, arrays and plain objects are all 'object'.
TypeOf(x) ==
    IF x.t \in {"null", "array", "object"} THEN "object" ELSE x.t

IsArray(x) == x.t = "array"

\* x == null in JavaScript: true of null and of undefined.
LooseNull(x) == x.t \in {"null", "undefined"}

\* obj[k] = v on an object kept as its entries in insertion order.
ObjSet(o, k, v) ==
    IF \E j \in 1..Len(o) : o[j].k = k
    THEN [j \in 1..Len(o) |-> IF o[j].k = k THEN [k |-> k, v |-> v] ELSE o[j]]
    ELSE Append(o, [k |-> k, v |-> v])

\* obj[k]
ObjGet(o, k) ==
    IF \E j \in 1..Len(o) : o[j].k = k
    THEN (o[CHOOSE j \in 1..Len(o) : o[j].k = k]).v
    ELSE Undefined

\* arr[i] with the source's 0-based index i: undefined past the end.
At(s, i) == IF i + 1 <= Len(s) THEN s[i + 1] ELSE Undefined

----------------------------------------------------------------------------
(* normalizeParams *)

\* shouldPassAsObject taken from typeof alone, without Array.isArray
normalizeParams_FlagArrays(params) ==
    LET bp0 == IF Len(params) > 1 THEN Arr(params) ELSE At(params, 0)
        bp1 == IF LooseNull(bp0) THEN Arr(<<>>) ELSE bp0
        bp2 == IF TypeOf(bp1) # "object" THEN Arr(<<bp1>>) ELSE bp1
    IN  [params |-> bp2, shouldPassAsObject |-> TypeOf(bp0) = "object" /\ ~LooseNull(bp0)]

\* params[0] taken whatever the number of arguments
normalizeParams_TakeFirst(params) ==
    LET bp0 == At(params, 0)
        bp1 == IF LooseNull(bp0) THEN Arr(<<>>) ELSE bp0
        bp2 == IF TypeOf(bp1) # "object" THEN Arr(<<bp1>>) ELSE bp1
    IN  [params |-> bp2, shouldPassAsObject |-> ~IsArray(bp2)]

normalizeParams(params) ==
    LET bp0 == IF Len(params) > 1 THEN Arr(params) ELSE At(params, 0)
        bp1 == IF LooseNull(bp0) THEN Arr(<<>>) ELSE bp0
        bp2 == IF TypeOf(bp1) # "object" THEN Arr(<<bp1>>) ELSE bp1
    IN  [params |-> bp2, shouldPassAsObject |-> ~IsArray(bp2)]

----------------------------------------------------------------------------
(* composeRow, composeRows *)

\* for (let i = ...; i < columnNames.length; i++) row[columnNames[i]] = columnValues[i]
RECURSIVE FillRow(_, _, _, _)
FillRow(names, values, i, row) ==
    IF i < Len(names)
    THEN FillRow(names, values, i + 1, ObjSet(row, names[i + 1], At(values, i)))
    ELSE row

Thrown == [err |-> TRUE, val |-> <<>>]
Returned(v) == [err |-> FALSE, val |-> v]

\* the length check left out
composeRow_NoCheck(names, values) ==
    Returned(FillRow(names, values, 0, <<>>))

composeRow(names, values) ==
    IF Len(names) # Len(values)
    THEN Thrown
    ELSE Returned(FillRow(names, values, 0, <<>>))

\* for (const columnValues of columnValuesList) { ...; results.push(row) }
RECURSIVE PushRows(_, _, _, _)
PushRows(names, list, k, results) ==
    IF k <= Len(list)
    THEN PushRows(names, list, k + 1,
                  Append(results, FillRow(names, list[k], 0, <<>>)))
    ELSE results

\* the loop stops one row early
composeRows_DropLast(names, list) ==
    IF Len(list) = 0 THEN Returned(<<>>)
    ELSE IF Len(names) # Len(list[1]) THEN Thrown
    ELSE Returned(PushRows(names, SubSeq(list, 1, Len(list) - 1), 1, <<>>))

composeRows(names, list) ==
    IF Len(list) = 0 THEN Returned(<<>>)
    ELSE IF Len(names) # Len(list[1]) THEN Thrown
    ELSE Returned(PushRows(names, list, 1, <<>>))

----------------------------------------------------------------------------
(* NativeStatement: the opaque handle the facade forwards to.  It owns the   *)
(* statement's column labels, its result set and a cursor into it.  st is   *)
(* the handle's mutable state [cursor, finalized]; every operation answers  *)
(* [err, absent, val, st].                                                  *)

NativeThrow(st) == [err |-> TRUE, absent |-> FALSE, val |-> <<>>, st |-> st]
NativeReturn(st, v) == [err |-> FALSE, absent |-> FALSE, val |-> v, st |-> st]
NativeAbsent(st) == [err |-> FALSE, absent |-> TRUE, val |-> <<>>, st |-> st]

\* getColumnNamesSync / getColumnNamesAsync
NativeGetColumnNames(st) ==
    IF st.finalized THEN NativeThrow(st) ELSE NativeReturn(st, columnNames)

\* arrayGetSync / objectGetSync / arrayGetAsync / objectGetAsync: one step
NativeGet(st) ==
    IF st.finalized THEN NativeThrow(st)
    ELSE IF st.cursor < Len(rows)
         THEN NativeReturn([st EXCEPT !.cursor = @ + 1], rows[st.cursor + 1])
         ELSE NativeAbsent(st)

\* arrayGetAllSync / objectGetAllSync / ...Async: every remaining row
NativeGetAll(st) ==
    IF st.finalized THEN NativeThrow(st)
    ELSE NativeReturn([st EXCEPT !.cursor = Len(rows)],
                      SubSeq(rows, st.cursor + 1, Len(rows)))

\* arrayRunSync / objectRunSync / ...Async: executes once, rewinding the cursor
NativeRun(st) ==
    IF st.finalized THEN NativeThrow(st)
    ELSE NativeReturn([st EXCEPT !.cursor = 0], <<>>)

\* resetSync / resetAsync
NativeReset(st) ==
    IF st.finalized THEN NativeThrow(st)
    ELSE NativeReturn([st EXCEPT !.cursor = 0], <<>>)

\* finalizeSync / finalizeAsync
NativeFinalize(st) ==
    IF st.finalized THEN NativeThrow(st)
    ELSE NativeReturn([st EXCEPT !.finalized = TRUE], <<>>)

----------------------------------------------------------------------------
(* SQLiteStatement *)

\* this.nativeDatabase
nativeDatabase == "db"

\* one call made on this.nativeStatement, as the native layer sees it
NamesCall(async) ==
    [op |-> "getColumnNames", variant |-> "none", async |-> async,
     db |-> "none", params |-> Undefined]
ExecCall(op, asObject, async, bindParams) ==
    [op |-> op, variant |-> IF asObject THEN "object" ELSE "array",
     async |-> async, db |-> nativeDatabase, params |-> bindParams]
HandleCall(op, async) ==
    [op |-> op, variant |-> "none", async |-> async,
     db |-> nativeDatabase, params |-> Undefined]

\* What one call did: the native calls it made, the raw rows the native layer
\* handed back, how it ended ("none", "native" or "shape" error), and what it
\* returned.
Outcome(calls, raw, err, kind, rws, nms, st) ==
    [calls |-> calls, raw |-> raw, err |-> err, kind |-> kind,
     rows |-> rws, names |-> nms, st |-> st]
Failed(calls, raw, err, st) == Outcome(calls, raw, err, "none", <<>>, <<>>, st)

\* a facade that keeps the first answer and never asks the native layer again
getColumnNamesSync_Cached(st) ==
    IF nameFetches > 0
    THEN Outcome(<<>>, <<>>, "none", "names", <<>>, columnNames, st)
    ELSE LET r == NativeGetColumnNames(st)
         IN  IF r.err THEN Failed(<<NamesCall(FALSE)>>, <<>>, "native", r.st)
             ELSE Outcome(<<NamesCall(FALSE)>>, <<>>, "none", "names", <<>>, r.val, r.st)

getColumnNamesSync(st) ==
    LET r == NativeGetColumnNames(st)
    IN  IF r.err THEN Failed(<<NamesCall(FALSE)>>, <<>>, "native", r.st)
        ELSE Outcome(<<NamesCall(FALSE)>>, <<>>, "none", "names", <<>>, r.val, r.st)

\* the two branches of the dispatch exchanged
runSync_Swapped(st, args) ==
    LET n == normalizeParams(args)
        call == ExecCall("run", ~n.shouldPassAsObject, FALSE, n.params)
        r == NativeRun(st)
    IN  IF r.err THEN Failed(<<call>>, <<>>, "native", r.st)
        ELSE Outcome(<<call>>, <<>>, "none", "run", <<>>, <<>>, r.st)

runSync(st, args) ==
    LET n == normalizeParams(args)
        call == ExecCall("run", n.shouldPassAsObject, FALSE, n.params)
        r == NativeRun(st)
    IN  IF r.err THEN Failed(<<call>>, <<>>, "native", r.st)
        ELSE Outcome(<<call>>, <<>>, "none", "run", <<>>, <<>>, r.st)

\* a native failure answered with null instead of being rethrown
getSync_Swallow(st, args) ==
    LET n == normalizeParams(args)
        c == getColumnNamesSync(st)
        call == ExecCall("get", n.shouldPassAsObject, FALSE, n.params)
        v == NativeGet(c.st)
        row == composeRow(c.names, v.val)
    IN  IF c.err # "none" \/ v.err
        THEN Outcome(c.calls, <<>>, "none", "absent", <<>>, <<>>, c.st)
        ELSE IF v.absent THEN Outcome(c.calls \o <<call>>, <<>>, "none", "absent", <<>>, <<>>, v.st)
        ELSE IF row.err THEN Failed(c.calls \o <<call>>, <<v.val>>, "shape", v.st)
        ELSE Outcome(c.calls \o <<call>>, <<v.val>>, "none", "row", <<row.val>>, <<>>, v.st)

getSync(st, args) ==
    LET n == normalizeParams(args)
        c == getColumnNamesSync(st)
        call == ExecCall("get", n.shouldPassAsObject, FALSE, n.params)
        v == NativeGet(c.st)
        row == composeRow(c.names, v.val)
    IN  IF c.err # "none" THEN Failed(c.calls, <<>>, c.err, c.st)
        ELSE IF v.err THEN Failed(c.calls \o <<call>>, <<>>, "native", v.st)
        ELSE IF v.absent THEN Outcome(c.calls \o <<call>>, <<>>, "none", "absent", <<>>, <<>>, v.st)
        ELSE IF row.err THEN Failed(c.calls \o <<call>>, <<v.val>>, "shape", v.st)
        ELSE Outcome(c.calls \o <<call>>, <<v.val>>, "none", "row", <<row.val>>, <<>>, v.st)

allSync(st, args) ==
    LET n == normalizeParams(args)
        c == getColumnNamesSync(st)
        call == ExecCall("getAll", n.shouldPassAsObject, FALSE, n.params)
        v == NativeGetAll(c.st)
        list == composeRows(c.names, v.val)
    IN  IF c.err # "none" THEN Failed(c.calls, <<>>, c.err, c.st)
        ELSE IF v.err THEN Failed(c.calls \o <<call>>, <<>>, "native", v.st)
        ELSE IF list.err THEN Failed(c.calls \o <<call>>, v.val, "shape", v.st)
        ELSE Outcome(c.calls \o <<call>>, v.val, "none", "rows", list.val, <<>>, v.st)

resetSync(st) ==
    LET r == NativeReset(st)
    IN  IF r.err THEN Failed(<<HandleCall("reset", FALSE)>>, <<>>, "native", r.st)
        ELSE Outcome(<<HandleCall("reset", FALSE)>>, <<>>, "none", "void", <<>>, <<>>, r.st)

finalizeSync(st) ==
    LET r == NativeFinalize(st)
    IN  IF r.err THEN Failed(<<HandleCall("finalize", FALSE)>>, <<>>, "native", r.st)
        ELSE Outcome(<<HandleCall("finalize", FALSE)>>, <<>>, "none", "void", <<>>, <<>>, r.st)

----------------------------------------------------------------------------
(* eachSync / eachAsync: the generator object.  pc is where its body stands: *)
(* "created" (body not entered), "awaitNames" / "awaitGet" (eachAsync parked *)
(* on an await), "suspended" (parked on yield), "done", "failed" (threw).    *)

NoIter ==
    [pc |-> "none", async |-> FALSE, args |-> <<>>, asObject |-> FALSE,
     bindParams |-> Undefined, columnNames |-> <<>>, yielded |-> <<>>,
     fetched |-> <<>>, calls |-> <<>>, err |-> "none",
     cursor0 |-> 0, startedFinalized |-> FALSE, clean |-> TRUE]

\* stmt.eachSync(...args) / stmt.eachAsync(...args): the arguments are kept,
\* no line of the body runs before the first next()
NewIter(async, args, st) ==
    [NoIter EXCEPT !.pc = "created", !.async = async, !.args = args,
                   !.cursor0 = st.cursor, !.startedFinalized = st.finalized]

\* const { params: bindParams, shouldPassAsObject } = normalizeParams(...params);
\* const func = shouldPassAsObject ? objectGet.bind(...) : arrayGet.bind(...)
BindFunc(it) ==
    LET n == normalizeParams(it.args)
    IN  [it EXCEPT !.asObject = n.shouldPassAsObject, !.bindParams = n.params]

\* the step call of the loop: func(this.nativeDatabase, bindParams)
StepCall(it) == ExecCall("get", it.asObject, it.async, it.bindParams)

\* a loop that goes round once more after the native layer answered null
LoopResult_StepAgain(st, it) ==
    LET v == NativeGet(st)
        row == composeRow(it.columnNames, v.val)
    IN  IF v.err THEN [it |-> [it EXCEPT !.pc = "failed", !.err = "native"], st |-> v.st]
        ELSE IF v.absent
             THEN [it |-> [it EXCEPT !.pc = "done", !.calls = Append(@, StepCall(it))],
                   st |-> v.st]
        ELSE IF row.err
             THEN [it |-> [it EXCEPT !.pc = "failed", !.err = "shape",
                                     !.fetched = Append(@, v.val)], st |-> v.st]
        ELSE [it |-> [it EXCEPT !.pc = "suspended", !.fetched = Append(@, v.val),
                                !.yielded = Append(@, row.val)], st |-> v.st]

\* rows yielded as the native layer handed them back, without composeRow's check
LoopResult_Unchecked(st, it) ==
    LET v == NativeGet(st)
        row == composeRow_NoCheck(it.columnNames, v.val)
    IN  IF v.err THEN [it |-> [it EXCEPT !.pc = "failed", !.err = "native"], st |-> v.st]
        ELSE IF v.absent THEN [it |-> [it EXCEPT !.pc = "done"], st |-> v.st]
        ELSE [it |-> [it EXCEPT !.pc = "suspended", !.fetched = Append(@, v.val),
                                !.yielded = Append(@, row.val)], st |-> v.st]

\* result = func(...) answered: if (result != null) yield composeRow(columnNames,
\* result); while (result != null)
LoopResult(st, it) ==
    LET v == NativeGet(st)
        row == composeRow(it.columnNames, v.val)
    IN  IF v.err THEN [it |-> [it EXCEPT !.pc = "failed", !.err = "native"], st |-> v.st]
        ELSE IF v.absent THEN [it |-> [it EXCEPT !.pc = "done"], st |-> v.st]
        ELSE IF row.err
             THEN [it |-> [it EXCEPT !.pc = "failed", !.err = "shape",
                                     !.fetched = Append(@, v.val)], st |-> v.st]
        ELSE [it |-> [it EXCEPT !.pc = "suspended", !.fetched = Append(@, v.val),
                                !.yielded = Append(@, row.val)], st |-> v.st]

\* one next() of the eachSync generator, to its next yield, return or throw
eachSyncNext(st, it) ==
    IF it.pc = "created"
    THEN LET c == getColumnNamesSync(st)
             b == [BindFunc(it) EXCEPT !.calls = c.calls]
         IN  IF c.err # "none"
             THEN [it |-> [b EXCEPT !.pc = "failed", !.err = c.err], st |-> c.st]
             ELSE LET g == [b EXCEPT !.columnNames = c.names]
                  IN  LoopResult(c.st, [g EXCEPT !.calls = Append(@, StepCall(g))])
    ELSE LoopResult(st, [it EXCEPT !.calls = Append(@, StepCall(it))])

\* a loop whose condition is false after the first row: the generator returns
\* on the next() that follows a yield instead of stepping again
eachAsyncNext_StopAfterFirst(it) ==
    IF it.pc = "created"
    THEN [BindFunc(it) EXCEPT !.pc = "awaitNames", !.calls = <<NamesCall(TRUE)>>]
    ELSE [it EXCEPT !.pc = "done"]

\* one next() of the eachAsync generator, up to its first await
eachAsyncNext(it) ==
    IF it.pc = "created"
    THEN [BindFunc(it) EXCEPT !.pc = "awaitNames", !.calls = <<NamesCall(TRUE)>>]
    ELSE [it EXCEPT !.pc = "awaitGet", !.calls = Append(@, StepCall(it))]

\* await this.getColumnNamesAsync() settles; the loop issues its first step
eachAsyncNames(st, it) ==
    LET r == NativeGetColumnNames(st)
    IN  IF r.err THEN [it |-> [it EXCEPT !.pc = "failed", !.err = "native"], st |-> r.st]
        ELSE LET g == [it EXCEPT !.columnNames = r.val]
             IN  [it |-> [g EXCEPT !.pc = "awaitGet", !.calls = Append(@, StepCall(g))],
                  st |-> r.st]

----------------------------------------------------------------------------
(* runAsync, getAsync, allAsync, getColumnNamesAsync, resetAsync,           *)
(* finalizeAsync: one call in flight, parked on an await.                   *)

NoTask ==
    [pc |-> "idle", op |-> "none", args |-> <<>>, asObject |-> FALSE,
     bindParams |-> Undefined, columnNames |-> <<>>, calls |-> <<>>,
     startedFinalized |-> FALSE]

\* the call up to its first await
StartTask(op, args, st) ==
    LET n == normalizeParams(args)
        t == [NoTask EXCEPT !.op = op, !.args = args, !.asObject = n.shouldPassAsObject,
                            !.bindParams = n.params, !.startedFinalized = st.finalized]
    IN  CASE op \in {"get", "all"} ->
               [t EXCEPT !.pc = "awaitNames", !.calls = <<NamesCall(TRUE)>>]
          [] op = "run" ->
               [t EXCEPT !.pc = "awaitExec",
                         !.calls = <<ExecCall("run", n.shouldPassAsObject, TRUE, n.params)>>]
          [] op = "getColumnNames" ->
               [t EXCEPT !.pc = "awaitExec", !.calls = <<NamesCall(TRUE)>>]
          [] OTHER ->
               [t EXCEPT !.pc = "awaitExec", !.calls = <<HandleCall(op, TRUE)>>]

\* getAsync / allAsync: await this.getColumnNamesAsync() settles and the
\* execution call is issued
TaskNames(st, t) ==
    LET r == NativeGetColumnNames(st)
        call == ExecCall(IF t.op = "get" THEN "get" ELSE "getAll",
                         t.asObject, TRUE, t.bindParams)
    IN  IF r.err THEN [t EXCEPT !.pc = "failed"]
        ELSE [t EXCEPT !.pc = "awaitExec", !.columnNames = r.val,
                       !.calls = Append(@, call)]

\* the awaited native call settles and the method returns or throws
TaskResult(st, t) ==
    CASE t.op = "run" ->
           LET r == NativeRun(st)
           IN  IF r.err THEN Failed(t.calls, <<>>, "native", r.st)
               ELSE Outcome(t.calls, <<>>, "none", "run", <<>>, <<>>, r.st)
      [] t.op = "get" ->
           LET v == NativeGet(st)
               row == composeRow(t.columnNames, v.val)
           IN  IF v.err THEN Failed(t.calls, <<>>, "native", v.st)
               ELSE IF v.absent THEN Outcome(t.calls, <<>>, "none", "absent", <<>>, <<>>, v.st)
               ELSE IF row.err THEN Failed(t.calls, <<v.val>>, "shape", v.st)
               ELSE Outcome(t.calls, <<v.val>>, "none", "row", <<row.val>>, <<>>, v.st)
      [] t.op = "all" ->
           LET v == NativeGetAll(st)
               list == composeRows(t.columnNames, v.val)
           IN  IF v.err THEN Failed(t.calls, <<>>, "native", v.st)
               ELSE IF list.err THEN Failed(t.calls, v.val, "shape", v.st)
               ELSE Outcome(t.calls, v.val, "none", "rows", list.val, <<>>, v.st)
      [] t.op = "getColumnNames" ->
           LET r == NativeGetColumnNames(st)
           IN  IF r.err THEN Failed(t.calls, <<>>, "native", r.st)
               ELSE Outcome(t.calls, <<>>, "none", "names", <<>>, r.val, r.st)
      [] t.op = "reset" ->
           LET r == NativeReset(st)
           IN  IF r.err THEN Failed(t.calls, <<>>, "native", r.st)
               ELSE Outcome(t.calls, <<>>, "none", "void", <<>>, <<>>, r.st)
      [] OTHER ->
           LET r == NativeFinalize(st)
           IN  IF r.err THEN Failed(t.calls, <<>>, "native", r.st)
               ELSE Outcome(t.calls, <<>>, "none", "void", <<>>, <<>>, r.st)

----------------------------------------------------------------------------
(* Inputs *)

RECURSIVE SeqsUpTo(_, _)
\* all sequences over S of length at most n
SeqsUpTo(S, n) ==
    IF n = 0 THEN {<<>>}
    ELSE LET shorter == SeqsUpTo(S, n - 1)
         IN  shorter \cup {Append(s, x) : s \in {t \in shorter : Len(t) = n - 1}, x \in S}

BindValues == {Str(1), Num(5), Null, Bool(1)}

ParamKeys == <<"$a", "$b", "$c">>

\* SQLiteBindValue[] and Record<string, SQLiteBindValue>
BindArrays == {Arr(s) : s \in SeqsUpTo(BindValues, MaxElems)}
BindObjects ==
    {Obj([j \in 1..Len(s) |-> [k |-> ParamKeys[j], v |-> s[j]]]) :
        s \in SeqsUpTo(BindValues, MaxElems)}

ArgValues == BindValues \cup {Undefined} \cup BindArrays \cup BindObjects

ColNames == {"a", "b"}

\* the raw row at position k of a result set, with n values
RawRow(k, n) == [i \in 1..n |-> Num(10 * k + i)]

\* lists of at most n raw rows, each of 0..MaxCols+1 values
RawLists(n) ==
    UNION {{[k \in 1..len |-> RawRow(k, shape[k])] :
               shape \in [1..len -> 0..(MaxCols + 1)]} : len \in 0..n}

----------------------------------------------------------------------------
(* normalizeParams applied to every argument list within the bounds *)

NormPending == [done |-> FALSE, params |-> Undefined, shouldPassAsObject |-> FALSE]

IdleComp == [op |-> "none", k |-> 0, err |-> FALSE, val |-> <<>>]

IdleStmt ==
    /\ columnNames = <<>>
    /\ rows = <<>>
    /\ cursor = 0
    /\ finalized = FALSE
    /\ iters = <<>>
    /\ task = <<>>
    /\ last = <<>>
    /\ nameFetches = 0
    /\ callsMade = 0

InitNormalize ==
    /\ nArgs \in SeqsUpTo(ArgValues, MaxArgs)
    /\ nOut = NormPending
    /\ cNames = <<>> /\ cList = <<>> /\ cOut = IdleComp
    /\ IdleStmt

CallNormalizeParams ==
    /\ ~nOut.done
    /\ LET r == normalizeParams(nArgs)
       IN  nOut' = [done |-> TRUE, params |-> r.params,
                    shouldPassAsObject |-> r.shouldPassAsObject]
    /\ UNCHANGED <<nArgs, compVars, stmtVars>>

NextNormalize == CallNormalizeParams

SpecNormalize == InitNormalize /\ [][NextNormalize]_vars

----------------------------------------------------------------------------
(* composeRow and composeRows applied to every input within the bounds *)

InitCompose ==
    /\ cNames \in SeqsUpTo(ColNames, MaxCols)
    /\ cList \in RawLists(MaxList)
    /\ cOut = IdleComp
    /\ nArgs = <<>> /\ nOut = NormPending
    /\ IdleStmt

CallComposeRow(k) ==
    /\ cOut.op = "none"
    /\ LET r == composeRow(cNames, cList[k])
       IN  cOut' = [op |-> "composeRow", k |-> k, err |-> r.err, val |-> r.val]
    /\ UNCHANGED <<cNames, cList, normVars, stmtVars>>

CallComposeRows ==
    /\ cOut.op = "none"
    /\ LET r == composeRows(cNames, cList)
       IN  cOut' = [op |-> "composeRows", k |-> 0, err |-> r.err, val |-> r.val]
    /\ UNCHANGED <<cNames, cList, normVars, stmtVars>>

NextCompose ==
    \/ \E k \in 1..Len(cList) : CallComposeRow(k)
    \/ CallComposeRows

SpecCompose == InitCompose /\ [][NextCompose]_vars

----------------------------------------------------------------------------
(* One SQLiteStatement over one native statement, its methods called in any *)
(* order with any of the argument lists below.                              *)

\* the generator objects a behaviour may hold, and the ones Spec hands out:
\* one generator, consumed while any of the other methods is called
IterIds == {1, 2}
SoloIters == {1}

ColLabels == <<"a", "b", "c", "d">>

\* the statement's column labels
StmtNames == {[i \in 1..MaxCols |-> ColLabels[i]]}

\* result sets of at most MaxRows raw rows; a row holds one value per column,
\* or one fewer, or one more
StmtRows(names) ==
    UNION {{[k \in 1..len |-> RawRow(k, shape[k])] :
               shape \in [1..len -> (Len(names) - 1)..(Len(names) + 1)]} :
           len \in 0..MaxRows}

\* one object of named parameters, two variadic values
ParamChoices ==
    {<<Obj(<<[k |-> "$a", v |-> Num(5)]>>)>>, <<Str(1), Null>>}

NoCall ==
    [op |-> "none", async |-> FALSE, args |-> <<>>, startedFinalized |-> FALSE,
     calls |-> <<>>, raw |-> <<>>, err |-> "none", kind |-> "none",
     rows |-> <<>>, names |-> <<>>]

\* the record of a completed call
Completed(op, async, args, wasFinalized, out) ==
    [op |-> op, async |-> async, args |-> args, startedFinalized |-> wasFinalized,
     calls |-> out.calls, raw |-> out.raw, err |-> out.err, kind |-> out.kind,
     rows |-> out.rows, names |-> out.names]

St == [cursor |-> cursor, finalized |-> finalized]

\* number of getColumnNames calls among calls
RECURSIVE CountNames(_)
CountNames(calls) ==
    IF calls = <<>> THEN 0
    ELSE (IF Head(calls).op = "getColumnNames" THEN 1 ELSE 0) + CountNames(Tail(calls))

\* every live generator but `self` has seen another operation on the statement
Others(self) ==
    [j \in IterIds |->
        IF j = self \/ iters[j].pc = "none" THEN iters[j]
        ELSE [iters[j] EXCEPT !.clean = FALSE]]

InitStmt ==
    /\ columnNames \in StmtNames
    /\ rows \in StmtRows(columnNames)
    /\ cursor = 0
    /\ finalized = FALSE
    /\ iters = [j \in IterIds |-> NoIter]
    /\ task = NoTask
    /\ last = NoCall
    /\ nameFetches = 0
    /\ callsMade = 0
    /\ nArgs = <<>> /\ nOut = NormPending
    /\ cNames = <<>> /\ cList = <<>> /\ cOut = IdleComp

\* a synchronous method runs to completion on the calling thread
SyncCall(op, args, out) ==
    /\ callsMade < MaxCalls
    /\ callsMade' = callsMade + 1
    /\ last' = Completed(op, FALSE, args, finalized, out)
    /\ cursor' = out.st.cursor
    /\ finalized' = out.st.finalized
    /\ nameFetches' = nameFetches + CountNames(out.calls)
    /\ iters' = Others(0)
    /\ UNCHANGED <<columnNames, rows, task, normVars, compVars>>

RunSync(args) == SyncCall("run", args, runSync(St, args))
GetSync(args) == SyncCall("get", args, getSync(St, args))
AllSync(args) == SyncCall("all", args, allSync(St, args))
GetColumnNamesSync == SyncCall("getColumnNames", <<>>, getColumnNamesSync(St))
ResetSync == SyncCall("reset", <<>>, resetSync(St))
FinalizeSync == SyncCall("finalize", <<>>, finalizeSync(St))

\* an asynchronous method runs up to its first await
AsyncCall(op, args) ==
    /\ task.pc = "idle"
    /\ callsMade < MaxCalls
    /\ callsMade' = callsMade + 1
    /\ LET t == StartTask(op, args, St)
       IN  /\ task' = t
           /\ nameFetches' = nameFetches + CountNames(t.calls)
    /\ iters' = Others(0)
    /\ UNCHANGED <<columnNames, rows, cursor, finalized, last, normVars, compVars>>

RunAsync(args) == AsyncCall("run", args)
GetAsync(args) == AsyncCall("get", args)
AllAsync(args) == AsyncCall("all", args)
GetColumnNamesAsync == AsyncCall("getColumnNames", <<>>)
ResetAsync == AsyncCall("reset", <<>>)
FinalizeAsync == AsyncCall("finalize", <<>>)

\* getAsync / allAsync resume after await this.getColumnNamesAsync()
AsyncNamesSettled ==
    /\ task.pc = "awaitNames"
    /\ LET t == TaskNames(St, task)
       IN  IF t.pc = "failed"
           THEN /\ last' = Completed(task.op, TRUE, task.args, task.startedFinalized,
                                     Failed(task.calls, <<>>, "native", St))
                /\ task' = NoTask
           ELSE /\ task' = t
                /\ last' = last
    /\ iters' = Others(0)
    /\ UNCHANGED <<columnNames, rows, cursor, finalized, nameFetches, callsMade,
                   normVars, compVars>>

\* the awaited native call of the method in flight settles
AsyncSettled ==
    /\ task.pc = "awaitExec"
    /\ LET out == TaskResult(St, task)
       IN  /\ last' = Completed(task.op, TRUE, task.args, task.startedFinalized, out)
           /\ cursor' = out.st.cursor
           /\ finalized' = out.st.finalized
    /\ task' = NoTask
    /\ iters' = Others(0)
    /\ UNCHANGED <<columnNames, rows, nameFetches, callsMade, normVars, compVars>>

\* stmt.eachSync(...args) and stmt.eachAsync(...args) hand out a generator
EachSync(i, args) ==
    /\ iters[i].pc = "none"
    /\ callsMade < MaxCalls
    /\ callsMade' = callsMade + 1
    /\ iters' = [Others(i) EXCEPT ![i] = NewIter(FALSE, args, St)]
    /\ UNCHANGED <<columnNames, rows, cursor, finalized, task, last, nameFetches,
                   normVars, compVars>>

EachAsync(i, args) ==
    /\ iters[i].pc = "none"
    /\ callsMade < MaxCalls
    /\ callsMade' = callsMade + 1
    /\ iters' = [Others(i) EXCEPT ![i] = NewIter(TRUE, args, St)]
    /\ UNCHANGED <<columnNames, rows, cursor, finalized, task, last, nameFetches,
                   normVars, compVars>>

\* the consumer pulls the next element of an eachSync generator
EachSyncNext(i) ==
    /\ ~iters[i].async
    /\ iters[i].pc \in {"created", "suspended"}
    /\ LET r == eachSyncNext(St, iters[i])
           fetches == CountNames(r.it.calls) - CountNames(iters[i].calls)
       IN  /\ nameFetches' = nameFetches + fetches
           /\ iters' = [Others(i) EXCEPT ![i] = r.it]
           /\ cursor' = r.st.cursor
           /\ finalized' = r.st.finalized
    /\ UNCHANGED <<columnNames, rows, task, last, callsMade, normVars, compVars>>

\* the consumer pulls the next element of an eachAsync generator
EachAsyncNext(i) ==
    /\ iters[i].async
    /\ iters[i].pc \in {"created", "suspended"}
    /\ LET it == eachAsyncNext(iters[i])
           fetches == CountNames(it.calls) - CountNames(iters[i].calls)
       IN  /\ nameFetches' = nameFetches + fetches
           /\ iters' = [Others(i) EXCEPT ![i] = it]
    /\ UNCHANGED <<columnNames, rows, cursor, finalized, task, last, callsMade,
                   normVars, compVars>>

\* eachAsync resumes after await this.getColumnNamesAsync()
EachAsyncNamesSettled(i) ==
    /\ iters[i].pc = "awaitNames"
    /\ LET r == eachAsyncNames(St, iters[i])
       IN  iters' = [Others(i) EXCEPT ![i] = r.it]
    /\ UNCHANGED <<columnNames, rows, cursor, finalized, task, last, nameFetches,
                   callsMade, normVars, compVars>>

\* eachAsync resumes after await func(this.nativeDatabase, bindParams)
EachAsyncGetSettled(i) ==
    /\ iters[i].pc = "awaitGet"
    /\ LET r == LoopResult(St, iters[i])
       IN  /\ iters' = [Others(i) EXCEPT ![i] = r.it]
           /\ cursor' = r.st.cursor
           /\ finalized' = r.st.finalized
    /\ UNCHANGED <<columnNames, rows, task, last, nameFetches, callsMade,
                   normVars, compVars>>

Next ==
    \/ \E args \in ParamChoices : RunSync(args)
    \/ \E args \in ParamChoices : GetSync(args)
    \/ \E args \in ParamChoices : AllSync(args)
    \/ GetColumnNamesSync
    \/ ResetSync
    \/ FinalizeSync
    \/ \E args \in ParamChoices : RunAsync(args)
    \/ \E args \in ParamChoices : GetAsync(args)
    \/ \E args \in ParamChoices : AllAsync(args)
    \/ GetColumnNamesAsync
    \/ ResetAsync
    \/ FinalizeAsync
    \/ AsyncNamesSettled
    \/ AsyncSettled
    \/ \E i \in SoloIters, args \in ParamChoices : EachSync(i, args)
    \/ \E i \in SoloIters, args \in ParamChoices : EachAsync(i, args)
    \/ \E i \in SoloIters : EachSyncNext(i)
    \/ \E i \in SoloIters : EachAsyncNext(i)
    \/ \E i \in SoloIters : EachAsyncNamesSettled(i)
    \/ \E i \in SoloIters : EachAsyncGetSettled(i)

Spec == InitStmt /\ [][Next]_vars

----------------------------------------------------------------------------
(* Two eachAsync generators of one statement, consumed in any interleaving, *)
(* with no other method called: every await of either generator is a point *)
(* where the other may run.  Each consumer keeps pulling and every native   *)
(* call settles, hence the fairness.                                        *)

EachAsyncStep(i) ==
    \/ EachAsyncNext(i)
    \/ EachAsyncNamesSettled(i)
    \/ EachAsyncGetSettled(i)

NextPair ==
    \/ \E i \in IterIds, args \in ParamChoices : EachAsync(i, args)
    \/ \E i \in IterIds : EachAsyncNext(i)
    \/ \E i \in IterIds : EachAsyncNamesSettled(i)
    \/ \E i \in IterIds : EachAsyncGetSettled(i)

SpecPair ==
    /\ InitStmt
    /\ [][NextPair]_vars
    /\ \A i \in IterIds : WF_vars(EachAsyncStep(i))

----------------------------------------------------------------------------
(* Properties of normalizeParams *)

IsBindValue(x) == x.t \in {"string", "number", "null", "boolean"}

\* C5: a single bare scalar BindValue v (text, number, null or boolean) passed
\* as the only argument normalizes to the one-element array [v], with
\* shouldPassAsObject = false.
C5_ScalarWrapped ==
    (nOut.done /\ Len(nArgs) = 1 /\ IsBindValue(nArgs[1]))
        => (nOut.params = Arr(<<nArgs[1]>>) /\ ~nOut.shouldPassAsObject)

\* C6: a single composite argument x is returned unchanged, and
\* shouldPassAsObject is true exactly when x is a mapping: false for every
\* array (the empty one included), true for every object (the empty one
\* included).
C6_CompositeUnchanged ==
    (nOut.done /\ Len(nArgs) = 1 /\ nArgs[1].t \in {"array", "object"})
        => /\ nOut.params = nArgs[1]
           /\ nOut.shouldPassAsObject = (nArgs[1].t = "object")
           /\ nArgs[1] = Arr(<<>>) => ~nOut.shouldPassAsObject
           /\ nArgs[1] = Obj(<<>>) => nOut.shouldPassAsObject

C6_Witness ==
    /\ nOut.done
    /\ Len(nArgs) = 1
    /\ nArgs[1].t = "object"
    /\ Len(nArgs[1].o) >= 1
    /\ nOut.shouldPassAsObject

\* C7: with zero arguments the result is the empty array; with n > 1
\* arguments it is the array of exactly those arguments in call order,
\* whatever they are; shouldPassAsObject is false in both cases.
C7_VariadicCollected ==
    /\ (nOut.done /\ Len(nArgs) = 0)
          => (nOut.params = Arr(<<>>) /\ ~nOut.shouldPassAsObject)
    /\ (nOut.done /\ Len(nArgs) > 1)
          => /\ nOut.params.t = "array"
             /\ Len(nOut.params.a) = Len(nArgs)
             /\ \A i \in 1..Len(nArgs) : nOut.params.a[i] = nArgs[i]
             /\ ~nOut.shouldPassAsObject

C7_Witness ==
    /\ nOut.done
    /\ Len(nArgs) = 2
    /\ nArgs[1].t = "object"
    /\ nArgs[2].t = "null"
    /\ nOut.params.a = nArgs

----------------------------------------------------------------------------
(* Properties of composeRow and composeRows *)

\* the last index at which name occurs in names
LastIndex(names, name) ==
    CHOOSE i \in 1..Len(names) :
        /\ names[i] = name
        /\ \A j \in (i + 1)..Len(names) : names[j] # name

KeysOf(row) == {row[j].k : j \in 1..Len(row)}
Range(s) == {s[i] : i \in 1..Len(s)}

\* C8 as stated: with equal lengths composeRow succeeds and for every index i
\* the i-th column name maps to the i-th column value; with different lengths
\* it fails.
C8_IthNameIthValue ==
    cOut.op = "composeRow" =>
        LET values == cList[cOut.k]
        IN  IF Len(cNames) = Len(values)
            THEN /\ ~cOut.err
                 /\ \A i \in 1..Len(cNames) : ObjGet(cOut.val, cNames[i]) = values[i]
            ELSE cOut.err

\* C8 amended: with equal lengths composeRow succeeds and returns a mapping
\* whose keys are the column names, each name mapped to the value at the LAST
\* index where that name occurs (so the i-th name maps to the i-th value when
\* the names are pairwise distinct); with different lengths it fails and
\* returns no row.
C8_LastOccurrenceWins ==
    cOut.op = "composeRow" =>
        LET values == cList[cOut.k]
        IN  IF Len(cNames) = Len(values)
            THEN /\ ~cOut.err
                 /\ KeysOf(cOut.val) = Range(cNames)
                 /\ Len(cOut.val) = Cardinality(Range(cNames))
                 /\ \A i \in 1..Len(cNames) :
                       ObjGet(cOut.val, cNames[i]) = values[LastIndex(cNames, cNames[i])]
                 /\ (Cardinality(Range(cNames)) = Len(cNames)) =>
                       \A i \in 1..Len(cNames) : cOut.val[i] = [k |-> cNames[i], v |-> values[i]]
            ELSE cOut.err /\ cOut.val = <<>>

C8_Witness ==
    /\ cOut.op = "composeRow"
    /\ ~cOut.err
    /\ Len(cNames) = 2
    /\ cNames[1] = cNames[2]
    /\ ObjGet(cOut.val, cNames[1]) = cList[cOut.k][2]

\* C9: composeRows returns the empty sequence without error for an empty
\* list, whatever columnNames is; for a non-empty list it fails exactly when
\* the first row's length differs from columnNames' length, and otherwise
\* returns as many rows as the list holds, the k-th composed from the k-th
\* input row with the same column names, in input order.
C9_ComposeRows ==
    cOut.op = "composeRows" =>
        IF Len(cList) = 0
        THEN ~cOut.err /\ cOut.val = <<>>
        ELSE /\ cOut.err <=> Len(cList[1]) # Len(cNames)
             /\ ~cOut.err =>
                  /\ Len(cOut.val) = Len(cList)
                  /\ \A k \in 1..Len(cList) :
                        /\ KeysOf(cOut.val[k]) = Range(cNames)
                        /\ \A i \in 1..Len(cNames) :
                              ObjGet(cOut.val[k], cNames[i])
                                  = At(cList[k], LastIndex(cNames, cNames[i]) - 1)
                        /\ Len(cList[k]) = Len(cNames) =>
                              cOut.val[k] = composeRow(cNames, cList[k]).val

C9_Witness ==
    /\ cOut.op = "composeRows"
    /\ ~cOut.err
    /\ Len(cList) = 2
    /\ Len(cNames) = 2
    /\ Len(cOut.val) = 2

----------------------------------------------------------------------------
(* Properties of the statement facade *)

WellShaped(raw) == Len(raw) = Len(columnNames)

\* the row the loops of composeRow / composeRows build from one raw row:
\* every column name a key, mapped to the value at its position, surplus
\* values dropped and missing ones undefined
Zipped(raw) ==
    [i \in 1..Len(columnNames) |-> [k |-> columnNames[i], v |-> At(raw, i - 1)]]

ExecCalls(calls) == SelectSeq(calls, LAMBDA c : c.op \in {"run", "get", "getAll"})

\* C1 as stated: whenever a row handed back by the native layer to get, each
\* or all has a value count different from the column-name count, the
\* operation fails with a shape-mismatch error, for every row of an all()
\* result set and not only the first; no returned row is truncated or padded.
C1_EveryRowChecked ==
    /\ (last.op \in {"get", "all"} /\ \E k \in 1..Len(last.raw) : ~WellShaped(last.raw[k]))
          => last.err = "shape"
    /\ \A i \in IterIds :
          (\E k \in 1..Len(iters[i].fetched) : ~WellShaped(iters[i].fetched[k]))
              => iters[i].err = "shape"

\* C1 amended: get and each fail with a shape-mismatch error on any row whose
\* value count differs from the column-name count, and every row they return
\* is composed from a row of the right count.  all fails with that error
\* exactly when the FIRST row of its result set has a different count; a
\* later row of another count is composed without error, its surplus values
\* dropped and its missing values left undefined.
C1_FirstRowChecked ==
    /\ last.op = "get" =>
          /\ (\E k \in 1..Len(last.raw) : ~WellShaped(last.raw[k])) =>
                (last.err = "shape" /\ last.rows = <<>>)
          /\ last.kind = "row" =>
                (Len(last.raw) = 1 /\ WellShaped(last.raw[1])
                  /\ last.rows = <<Zipped(last.raw[1])>>)
    /\ \A i \in IterIds :
          LET it == iters[i]
          IN  /\ (\E k \in 1..Len(it.fetched) : ~WellShaped(it.fetched[k]))
                    <=> it.err = "shape"
              /\ it.err = "shape" =>
                    (it.pc = "failed" /\ Len(it.yielded) = Len(it.fetched) - 1)
              /\ \A k \in 1..Len(it.yielded) :
                    WellShaped(it.fetched[k]) /\ it.yielded[k] = Zipped(it.fetched[k])
    /\ last.op = "all" =>
          /\ last.err = "shape" <=> (last.raw # <<>> /\ ~WellShaped(last.raw[1]))
          /\ last.err = "shape" => last.rows = <<>>
          /\ last.err = "none" =>
                /\ Len(last.rows) = Len(last.raw)
                /\ \A k \in 1..Len(last.raw) : last.rows[k] = Zipped(last.raw[k])

C1_Witness ==
    /\ last.op = "all"
    /\ last.err = "none"
    /\ Len(last.raw) = 2
    /\ Len(last.raw[2]) < Len(columnNames)
    /\ ObjGet(last.rows[2], columnNames[Len(columnNames)]) = Undefined

\* C2 as stated: over any sequence of get, each, all and getColumnNames calls
\* on one statement the facade fetches the column names from the native
\* layer at most once.
C2_FetchedAtMostOnce == nameFetches <= 1

\* C2 amended: the facade caches nothing.  Every get, all and getColumnNames
\* call and every each iteration that has begun has issued exactly one native
\* getColumnNames call of its own, as its first native call; run, reset and
\* finalize issue none.
C2_FetchedEveryCall ==
    /\ last.op \in {"get", "all", "getColumnNames"} =>
          (CountNames(last.calls) = 1 /\ last.calls[1].op = "getColumnNames")
    /\ last.op \in {"run", "reset", "finalize"} => CountNames(last.calls) = 0
    /\ task.op \in {"get", "all", "getColumnNames"} =>
          (CountNames(task.calls) = 1 /\ task.calls[1].op = "getColumnNames")
    /\ \A i \in IterIds :
          /\ iters[i].pc \in {"none", "created"} => iters[i].calls = <<>>
          /\ iters[i].pc \notin {"none", "created"} =>
                (CountNames(iters[i].calls) = 1
                  /\ iters[i].calls[1].op = "getColumnNames")
    /\ nameFetches <= callsMade

C2_Witness ==
    /\ nameFetches = 2
    /\ last.op = "get"
    /\ last.err = "none"
    /\ \E i \in IterIds : iters[i].pc = "suspended"

\* C3: once finalize has completed, every later run, get, each, all,
\* getColumnNames or reset call on the statement surfaces an error: none
\* returns a result, and an each iteration begun after it yields no row and
\* throws when it is consumed.
C3_FinalizedFails ==
    /\ (last.op \in {"run", "get", "all", "getColumnNames", "reset"}
          /\ last.startedFinalized)
          => (last.err = "native" /\ last.kind = "none" /\ last.rows = <<>>
               /\ last.names = <<>>)
    /\ \A i \in IterIds :
          iters[i].startedFinalized =>
              /\ iters[i].pc \in {"created", "awaitNames", "failed"}
              /\ iters[i].yielded = <<>>
              /\ iters[i].pc = "failed" => iters[i].err = "native"

C3_Witness ==
    /\ finalized
    /\ \E i \in IterIds :
          /\ iters[i].startedFinalized
          /\ iters[i].async
          /\ iters[i].pc = "failed"

\* C4: for a Prepared statement whose cursor has N remaining rows (each with
\* one value per column) and with no other operation on the statement
\* interleaved, consuming each(params) yields exactly those N rows, composed,
\* in native fetch order, and ends at the first absent marker: N + 1 native
\* steps in all, none after the marker.
C4_EachYieldsRemaining ==
    \A i \in IterIds :
        LET it == iters[i]
            rem == SubSeq(rows, it.cursor0 + 1, Len(rows))
            steps == Len(ExecCalls(it.calls))
        IN  (/\ it.pc # "none"
             /\ ~it.startedFinalized
             /\ it.clean
             /\ \A k \in 1..Len(rem) : WellShaped(rem[k]))
            => /\ it.pc # "failed"
               /\ Len(it.yielded) <= Len(rem)
               /\ \A k \in 1..Len(it.yielded) :
                     it.yielded[k] = composeRow(columnNames, rem[k]).val
               /\ cursor = it.cursor0 + Len(it.yielded)
               /\ it.pc = "done" => (Len(it.yielded) = Len(rem) /\ steps = Len(rem) + 1)
               /\ it.pc = "suspended" => steps = Len(it.yielded)
               /\ it.pc = "awaitGet" => steps = Len(it.yielded) + 1
               /\ it.pc \in {"created", "awaitNames"} => steps = 0

C4_Witness ==
    \E i \in IterIds :
        /\ iters[i].pc = "done"
        /\ iters[i].clean
        /\ ~iters[i].startedFinalized
        /\ iters[i].cursor0 = 0
        /\ Len(rows) = 2
        /\ Len(iters[i].yielded) = 2

----------------------------------------------------------------------------
(* Two interleaved eachAsync iterations *)

\* the position in the result set of the raw row a yielded row was composed from
RowIndex(row) == CHOOSE k \in 1..Len(rows) : Zipped(rows[k]) = row

\* the positions of the rows generator i has yielded, in the order it yielded them
YieldedIndices(i) ==
    [k \in 1..Len(iters[i].yielded) |-> RowIndex(iters[i].yielded[k])]

PairShared ==
    (\A k \in 1..Len(rows) : WellShaped(rows[k])) =>
        /\ \A i \in IterIds : iters[i].pc # "failed"
        \* every row the native cursor has handed out so far went to exactly
        \* one of the two generators
        /\ \A k \in 1..Len(rows) :
              LET holders == {i \in IterIds :
                                \E j \in 1..Len(iters[i].yielded) :
                                    iters[i].yielded[j] = Zipped(rows[k])}
              IN  IF k <= cursor THEN Cardinality(holders) = 1 ELSE holders = {}
        /\ Len(iters[1].yielded) + Len(iters[2].yielded) = cursor
        \* each generator's rows are in native fetch order
        /\ \A i \in IterIds :
              \A a, b \in 1..Len(iters[i].yielded) :
                  a < b => YieldedIndices(i)[a] < YieldedIndices(i)[b]
        \* a generator returns only once the cursor is exhausted
        /\ \A i \in IterIds : iters[i].pc = "done" => cursor = Len(rows)

PairStarted == \A i \in IterIds : iters[i].pc # "none"
PairEnded == \A i \in IterIds : iters[i].pc \in {"done", "failed"}

\* C11: two eachAsync iterations on one statement, consumed in any
\* interleaving without a reset, share the one native cursor: every native
\* row is yielded by exactly one of the two iterators (never by both, never
\* lost), each iterator's rows appear in native fetch order, and both
\* iterators terminate; so neither is guaranteed to see all N rows.
C11_SharedCursor ==
    /\ []PairShared
    /\ (PairStarted ~> PairEnded)
    /\ [](PairEnded => []PairEnded)

\* both iterators have returned, and each saw one of the two rows only
C11_Witness ==
    /\ Len(rows) = 2
    /\ \A k \in 1..Len(rows) : WellShaped(rows[k])
    /\ \A i \in IterIds :
          /\ iters[i].pc = "done"
          /\ Len(iters[i].yielded) = 1
    /\ iters[2].yielded = <<Zipped(rows[1])>>
    /\ iters[1].yielded = <<Zipped(rows[2])>>

====
